---- MODULE Spec2Model ----
(***************************************************************************)
(* Watchtower AI: the broker's session registry and relay handlers         *)
(* (src/server) and the agent link's command handling (src/agent).         *)
(*                                                                         *)
(* Every handler is an asyncio coroutine.  The code between two awaits     *)
(* runs without interleaving, so one action of this module is one such     *)
(* segment.  A send_json hands its message to the transport in call order  *)
(* before the coroutine can be suspended, so the message is appended to    *)
(* the receiver's channel in the segment that makes the call.              *)
(***************************************************************************)
EXTENDS Integers, Sequences, FiniteSets, TLC

\* ------------------------------------------------------------------ bounds
MaxReq == 2            \* command batches issued in one run
MaxCmds == 2           \* commands in one batch
MaxSeq == 2            \* distinct frames a producer may send
MaxLinkMsgs == 2       \* messages the agent link receives in one run
MaxFrames == 7         \* frames the capture engine produces in one run
MaxAttempt == 1752     \* value the reconnect counter may reach in one run
MaxLinkOut == 2        \* connections the agent link establishes in one run
MaxLog == 102          \* commands of the longest batch the executor is given
MaxRace == 3           \* frames produced while two grabs run in two threads

\* --------------------------------------------------------------- constants
None == "none"
Users == {7}
AgentConns == {"a1", "a2"}
StreamConns == {"b1", "b2"}
ChatConns == {"c1", "c2"}
Conns == AgentConns \cup StreamConns \cup ChatConns
UnauthorizedCode == 4001
Threshold == 5         \* capture.py: changed = changed or (diff > 5)
QueueSize == 5         \* capture.py: asyncio.Queue(maxsize=5)
NoHash == -1           \* ScreenCapture._last_hash is None
SubIds == {"s1", "s2"}
LogSize == 100                 \* entries the action_log property returns
Threads == {"loop", "forced"}  \* the worker threads that run _grab_frame
reconnect_delay == 3       \* config.py: reconnect_delay = 3.0
max_reconnect_delay == 60  \* config.py: max_reconnect_delay = 60.0
BackoffNum == 3            \* config.py: reconnect_backoff = 1.5 = 3 / 2
BackoffDen == 2
PowOverflow == 1751        \* least n for which the float 1.5 ** n overflows
AuthCooldown == 30         \* ws_client.py: await asyncio.sleep(30)
ErrorWait == 5             \* ws_client.py: await asyncio.sleep(5)

NoFrame == [type |-> "none"]
NoMsg == [type |-> "none"]

VARIABLES
    sessions,   \* SessionManager._sessions: user id -> Session
    futures,    \* the futures created by the chat handlers, by request number
    closed,     \* connections whose transport the peer has closed
    closeCode,  \* the close code the broker gave a connection (0: none)
    pc,         \* each handler's position
    huser,      \* each handler's local `user.id` (0 before authentication)
    out,        \* what the broker has sent on each connection: the first
                \* and the latest message
    creq,       \* chat handler: request number of the batch it waits for
    cctx,       \* chat handler: frame_b64 handed to the command source
    cinc,       \* chat handler: include_screenshot of the current request
    cacts,      \* chat handler: the actions of the batch it has issued
    lpc,        \* agent link: position of the message loop
    lmsg,       \* agent link: the action message being handled
    lidx,       \* agent link: index of the next command of that message
    lresults,   \* agent link: `results` of _handle_action
    lin,        \* agent link: the messages received from the broker
    lout,       \* agent link: the messages sent to the broker
    lconnected, \* AgentWSClient._connected
    lclosed,    \* agent link: the broker has closed the transport
    lenabled,   \* InputController._enabled
    llog,       \* InputController._action_log
    levents,    \* the input events dispatched through the input library
    lrunning,   \* AgentWSClient._running
    lstatus,    \* the status last given to _set_status
    lcount,     \* AgentWSClient._reconnect_count
    ldelay,     \* the delay start() is sleeping, in seconds, as a fraction
    lclean,     \* agent link: the transport was closed with code 1000/1001
    ltasks,     \* the frame and keepalive loops are running
    ftask,      \* the _stream_frames task of each connection made so far
    krunning,   \* ScreenCapture._running
    kpaused,    \* ScreenCapture._paused
    kpc,        \* capture loop: "stopped", "tick" (before a grab) or
                \* "grabbed" (the grab has returned `frame`)
    kloop,      \* capture loop: `frame`, what its last grab returned
    kforced,    \* what the last capture_single returned
    kframe_number, \* ScreenCapture._frame_number
    klast_hash, \* ScreenCapture._last_hash
    klatest,    \* ScreenCapture._latest_frame
    ksubs,      \* ScreenCapture._subscribers: the queue of each subscriber
    kprev,      \* the image of the previous capture and whether it was forced
    gpc,        \* each grabbing thread's position inside _grab_frame
    gnum,       \* each grabbing thread's read of _frame_number at line 258
    gimg        \* each grabbing thread's `current_hash`

cvars == <<creq, cctx, cinc, cacts>>
bvars == <<sessions, futures, closed, closeCode, pc, huser, out, cvars>>
rvars == <<lrunning, lstatus, lcount, ldelay, lclean, ltasks, ftask>>
evars == <<llog, levents>>
lvars == <<lpc, lmsg, lidx, lresults, lin, lout, lconnected, lclosed, lenabled,
           evars, rvars>>
kvars == <<krunning, kpaused, kpc, kloop, kforced, kframe_number, klast_hash,
           klatest, ksubs, kprev, gpc, gnum, gimg>>
gvars == <<gpc, gnum, gimg>>   \* the worker threads inside _grab_frame
avars == <<lvars, kvars>>      \* the agent process
xlink == <<bvars, kvars>>      \* what the agent link's steps leave alone
xcap == <<bvars, lvars, gvars>>       \* what the capture engine's steps leave alone
vars == <<bvars, lvars, kvars>>

\* ---------------------------------------------------------- session registry
Session(u) ==
    [user_id |-> u, agent_ws |-> None, browser_ws |-> None,
     agent_status |-> "disconnected", latest_frame |-> NoFrame,
     chat_agent |-> FALSE, pending_action_future |-> 0]

get_or_create_session(S, u) ==
    IF u \in DOMAIN S THEN S ELSE S @@ (u :> Session(u))

register_agent(S, u, ws) ==
    [get_or_create_session(S, u) EXCEPT ![u].agent_ws = ws,
                                        ![u].agent_status = "connected"]

register_browser(S, u, ws) ==
    [get_or_create_session(S, u) EXCEPT ![u].browser_ws = ws]

\* A detach that keeps the cached frame; C12 does not hold of it.
remove_agent_keep_frame(S, u) ==
    [S EXCEPT ![u].agent_ws = None,
              ![u].agent_status = "disconnected"]

remove_agent(S, u) ==
    [S EXCEPT ![u].agent_ws = None,
              ![u].agent_status = "disconnected",
              ![u].latest_frame = NoFrame]

remove_browser(S, u) ==
    [S EXCEPT ![u].browser_ws = None]

cleanup_session(S, u) ==
    IF u \in DOMAIN S /\ S[u].agent_ws = None /\ S[u].browser_ws = None
    THEN [v \in DOMAIN S \ {u} |-> S[v]]
    ELSE S

active_sessions == Cardinality(DOMAIN sessions)

\* ------------------------------------------------------------------ helpers
\* A send on a transport the peer has closed raises.
SendFails(c) == c \in closed

\* Of the messages sent on a connection the model keeps the first and the
\* latest one.
Nothing == [first |-> NoMsg, last |-> NoMsg]
Sent(o, c, m) ==
    [o EXCEPT ![c] = [first |-> IF @.first = NoMsg THEN m ELSE @.first,
                      last |-> m]]

\* A best-effort send (try: send_json / except: pass) to c, or to nobody.
TrySend(o, c, m) == IF c # None /\ ~SendFails(c) THEN Sent(o, c, m) ELSE o

\* dict.get(key, default)
Get(d, k, default) == IF k \in DOMAIN d THEN d[k] ELSE default

AgentStatusMsg(connected, status) ==
    [type |-> "agent_status", connected |-> connected, agent_status |-> status]

Init ==
    /\ sessions = <<>>
    /\ futures = <<>>
    /\ closed = {}
    /\ closeCode = [c \in Conns |-> 0]
    /\ pc = [c \in Conns |-> "init"]
    /\ huser = [c \in Conns |-> 0]
    /\ out = [c \in Conns |-> Nothing]
    /\ creq = [c \in ChatConns |-> 0]
    /\ cctx = [c \in ChatConns |-> None]
    /\ cinc = [c \in ChatConns |-> FALSE]
    /\ cacts = [c \in ChatConns |-> <<>>]
    /\ lpc = "init"
    /\ lmsg = NoMsg
    /\ lidx = 0
    /\ lresults = <<>>
    /\ lin = <<>>
    /\ lout = <<>>
    /\ lconnected = FALSE
    /\ lclosed = FALSE
    /\ lenabled = FALSE
    /\ llog = <<>>
    /\ levents = <<>>
    /\ lrunning = FALSE
    /\ lstatus = "none"
    /\ lcount = 0
    /\ ldelay = [num |-> 0, den |-> 1]
    /\ lclean = FALSE
    /\ ltasks = FALSE
    /\ ftask = <<>>
    /\ krunning = FALSE
    /\ kpaused = FALSE
    /\ kpc = "stopped"
    /\ kloop = NoFrame
    /\ kforced = NoFrame
    /\ kframe_number = 0
    /\ klast_hash = NoHash
    /\ klatest = NoFrame
    /\ ksubs = <<>>
    /\ kprev = [hash |-> NoHash, forced |-> FALSE]
    /\ gpc = [t \in Threads |-> "idle"]
    /\ gnum = [t \in Threads |-> 0]
    /\ gimg = [t \in Threads |-> NoHash]

\* ------------------------------------------------- messages from the peers
FrameMsg(k) ==
    [type |-> "frame", image_b64 |-> "jpeg" \o ToString(k), frame_number |-> k]

\* The results of the n commands of batch rid, in command order.
ResultList(rid, n) ==
    [i \in 1..n |-> [status |-> "ok", message |-> <<"batch", rid, "command", i>>]]

ActionResultMsg(rid, n) ==
    [type |-> "action_result", request_id |-> rid, results |-> ResultList(rid, n)]

\* What a producer connection may deliver.  The agent of this repository
\* reports agent_status "running" or "stopped" (src/agent/ws_client.py:272);
\* a status message without the field is read as "ready".  Request number 0
\* stands for an identifier the broker never issued.
AgentMsgs ==
    {FrameMsg(k) : k \in 1..MaxSeq}
    \cup {ActionResultMsg(rid, n) : rid \in 0..Len(futures), n \in 1..MaxCmds}
    \cup {[type |-> "status", agent_status |-> "running"], [type |-> "status"]}
    \cup {[type |-> "pong"], [type |-> "unknown"], [type |-> "malformed"]}

\* Tokens a connection may present: a valid credential of a user, or none.
Tokens == Users \cup {0}

\* A rejection that tells the connection why before it closes it; C23 does
\* not hold of it.
RejectWithNotice(c) ==
    /\ pc' = [pc EXCEPT ![c] = "rejected"]
    /\ closeCode' = [closeCode EXCEPT ![c] = UnauthorizedCode]
    /\ out' = Sent(out, c, [type |-> "error"])
    /\ UNCHANGED <<sessions, futures, closed, huser, cvars>>

\* ws_agent.py:40-49, ws_browser.py:39-47 and 98-106: no valid credential.
Reject(c) ==
    /\ pc' = [pc EXCEPT ![c] = "rejected"]
    /\ closeCode' = [closeCode EXCEPT ![c] = UnauthorizedCode]
    /\ UNCHANGED <<sessions, futures, closed, huser, out, cvars>>

\* ------------------------------------------- producer-facing handler
\* ws_agent.py:51-65: accept, register, announce to the consumer.
AgentAccept(a, u) ==
    LET S == register_agent(sessions, u, a)
        b == S[u].browser_ws
    IN /\ sessions' = S
       /\ huser' = [huser EXCEPT ![a] = u]
       /\ pc' = [pc EXCEPT ![a] = "loop"]
       /\ out' = TrySend(out, b, AgentStatusMsg(TRUE, "connected"))
       /\ UNCHANGED <<futures, closed, closeCode, cvars>>

AgentConnect(a) ==
    /\ pc[a] = "init"
    /\ \E tok \in Tokens : IF tok = 0 THEN Reject(a) ELSE AgentAccept(a, tok)
    /\ UNCHANGED avars

\* A relay that forwards a frame without storing it; C10 does not hold of it.
OnFrameNoStore(a, data) ==
    LET b == sessions[huser[a]].browser_ws
    IN /\ sessions' = sessions
       /\ IF b # None /\ SendFails(b)
          THEN /\ pc' = [pc EXCEPT ![a] = "fwd_failed"]
               /\ out' = out
          ELSE /\ pc' = pc
               /\ out' = TrySend(out, b, data)
       /\ UNCHANGED futures

\* ws_agent.py:72-79: store the frame and relay it to the consumer.
OnFrame(a, data) ==
    LET u == huser[a]
        b == sessions[u].browser_ws
    IN /\ sessions' = [sessions EXCEPT ![u].latest_frame = data]
       /\ IF b # None /\ SendFails(b)
          THEN /\ pc' = [pc EXCEPT ![a] = "fwd_failed"]
               /\ out' = out
          ELSE /\ pc' = pc
               /\ out' = TrySend(out, b, data)
       /\ UNCHANGED futures

\* ws_agent.py:81-84: resolve the pending future of the session.
OnActionResult(a, data) ==
    LET p == sessions[huser[a]].pending_action_future
    IN /\ futures' = IF p # 0 /\ futures[p].state = "pending"
                     THEN [futures EXCEPT ![p] =
                            [state |-> "done", result |-> Get(data, "results", <<>>)]]
                     ELSE futures
       /\ UNCHANGED <<sessions, pc, out>>

\* ws_agent.py:86-98: record the reported status and tell the consumer.
OnStatus(a, data) ==
    LET u == huser[a]
        b == sessions[u].browser_ws
        st == Get(data, "agent_status", "ready")
    IN /\ sessions' = [sessions EXCEPT ![u].agent_status = st]
       /\ out' = TrySend(out, b, AgentStatusMsg(TRUE, st))
       /\ UNCHANGED <<futures, pc>>

\* ws_agent.py:103-118: the finally block of the handler.
AgentFinally(a) ==
    LET u == huser[a]
        b == sessions[u].browser_ws
    IN /\ sessions' = remove_agent(sessions, u)
       /\ out' = TrySend(out, b, AgentStatusMsg(FALSE, "disconnected"))
       /\ pc' = [pc EXCEPT ![a] = "done"]
       /\ UNCHANGED futures

\* ws_agent.py:67-101: one iteration of the receive loop on message `data`.
\* receive_json raises on a message that is no JSON object, which ends the
\* handler through its finally block.
AgentHandle(a, data) ==
    /\ pc[a] = "loop"
    /\ a \notin closed
    /\ CASE data.type = "frame" -> OnFrame(a, data)
         [] data.type = "action_result" -> OnActionResult(a, data)
         [] data.type = "status" -> OnStatus(a, data)
         [] data.type = "malformed" -> AgentFinally(a)
         [] OTHER -> UNCHANGED <<sessions, futures, pc, out>>
    /\ UNCHANGED <<closed, closeCode, huser, cvars>>

AgentRecv(a, msgs) ==
    /\ \E data \in msgs : AgentHandle(a, data)
    /\ UNCHANGED avars

\* ws_agent.py:78-79: the relay to the consumer raised; the handler resumes
\* in the except clause.
\* A relay whose producer handler ends when a forward fails; C26 does not
\* hold of it.
AgentFwdAbort(a) ==
    /\ pc[a] = "fwd_failed"
    /\ sessions' = [remove_agent(sessions, huser[a]) EXCEPT
                       ![huser[a]].browser_ws = None]
    /\ pc' = [pc EXCEPT ![a] = "done"]
    /\ UNCHANGED <<futures, closed, closeCode, huser, out, cvars>>
    /\ UNCHANGED avars

AgentFwdFailed(a) ==
    /\ pc[a] = "fwd_failed"
    /\ sessions' = [sessions EXCEPT ![huser[a]].browser_ws = None]
    /\ pc' = [pc EXCEPT ![a] = "loop"]
    /\ UNCHANGED <<futures, closed, closeCode, huser, out, cvars>>
    /\ UNCHANGED avars

\* ws_agent.py:103-118: receive_json raised WebSocketDisconnect.
AgentDisconnect(a) ==
    /\ pc[a] = "loop"
    /\ a \in closed
    /\ AgentFinally(a)
    /\ UNCHANGED <<closed, closeCode, huser, cvars>>
    /\ UNCHANGED avars

\* The peer (or the network) closes a connection the broker has accepted.
PeerClose(c) ==
    /\ c \notin closed
    /\ pc[c] \notin {"init", "rejected", "done", "crashed"}
    /\ closed' = closed \cup {c}
    /\ UNCHANGED <<sessions, futures, closeCode, pc, huser, out, cvars>>
    /\ UNCHANGED avars

\* ------------------------------------------- consumer-facing handler
ControlMsg(cmd) == [type |-> "control", command |-> cmd]

StreamMsgs ==
    {ControlMsg(cmd) : cmd \in {"pause", "resume"}}
    \cup {[type |-> "unknown"], [type |-> "malformed"]}

\* A consumer handler that replays the cached frame before it sends the
\* status; C9 does not hold of it.
StreamAcceptFrameFirst(b, u, gone) ==
    LET S == register_browser(sessions, u, b)
        f == S[u].latest_frame
    IN /\ sessions' = S
       /\ huser' = [huser EXCEPT ![b] = u]
       /\ IF gone
          THEN /\ closed' = closed \cup {b}
               /\ pc' = [pc EXCEPT ![b] = "crashed"]
               /\ out' = out
          ELSE /\ closed' = closed
               /\ pc' = [pc EXCEPT ![b] = "replay"]
               /\ out' = Sent(IF f # NoFrame THEN Sent(out, b, f) ELSE out, b,
                              AgentStatusMsg(S[u].agent_ws # None,
                                             S[u].agent_status))
       /\ UNCHANGED <<futures, closeCode, cvars>>

\* ws_browser.py:49-57: accept, register, send the status.  The status send
\* is outside every try block: when the peer is already gone it raises and
\* the handler ends without reaching remove_browser.
StreamAccept(b, u, gone) ==
    LET S == register_browser(sessions, u, b)
    IN /\ sessions' = S
       /\ huser' = [huser EXCEPT ![b] = u]
       /\ IF gone
          THEN /\ closed' = closed \cup {b}
               /\ pc' = [pc EXCEPT ![b] = "crashed"]
               /\ out' = out
          ELSE /\ closed' = closed
               /\ pc' = [pc EXCEPT ![b] = "replay"]
               /\ out' = Sent(out, b, AgentStatusMsg(S[u].agent_ws # None,
                                                     S[u].agent_status))
       /\ UNCHANGED <<futures, closeCode, cvars>>

StreamConnect(b) ==
    /\ pc[b] = "init"
    /\ \E tok \in Tokens, gone \in BOOLEAN :
         IF tok = 0 THEN ~gone /\ Reject(b) ELSE StreamAccept(b, tok, gone)
    /\ UNCHANGED avars

\* ws_browser.py:59-64: replay the cached frame; a failure is swallowed.
StreamReplay(b) ==
    /\ pc[b] = "replay"
    /\ LET f == sessions[huser[b]].latest_frame
       IN out' = IF f # NoFrame THEN TrySend(out, b, f) ELSE out
    /\ pc' = [pc EXCEPT ![b] = "loop"]
    /\ UNCHANGED <<sessions, futures, closed, closeCode, huser, cvars>>
    /\ UNCHANGED avars

\* ws_browser.py:88-93: the finally block of the handler.
StreamFinally(b) ==
    /\ sessions' = remove_browser(sessions, huser[b])
    /\ pc' = [pc EXCEPT ![b] = "done"]
    /\ out' = out

\* A consumer loop that relays every well-formed message, whatever its
\* type; C11 does not hold of it.
StreamHandleForwardAll(b, data) ==
    /\ pc[b] = "loop"
    /\ b \notin closed
    /\ LET a == sessions[huser[b]].agent_ws
       IN IF data.type = "malformed"
          THEN StreamFinally(b)
          ELSE /\ out' = TrySend(out, a, data)
               /\ UNCHANGED <<sessions, pc>>
    /\ UNCHANGED <<futures, closed, closeCode, huser, cvars>>

\* ws_browser.py:66-79: a message from the consumer.
StreamHandle(b, data) ==
    /\ pc[b] = "loop"
    /\ b \notin closed
    /\ LET a == sessions[huser[b]].agent_ws
       IN CASE data.type = "control" ->
                 /\ out' = TrySend(out, a, data)
                 /\ UNCHANGED <<sessions, pc>>
            [] data.type = "malformed" -> StreamFinally(b)
            [] OTHER -> UNCHANGED <<sessions, pc, out>>
    /\ UNCHANGED <<futures, closed, closeCode, huser, cvars>>

StreamRecv(b, msgs) ==
    /\ \E data \in msgs : StreamHandle(b, data)
    /\ UNCHANGED avars

\* ws_browser.py:81-86: 30 s without a message: keepalive ping.
StreamPing(b) ==
    /\ pc[b] = "loop"
    /\ b \notin closed
    /\ out' = Sent(out, b, [type |-> "ping"])
    /\ UNCHANGED <<sessions, futures, closed, closeCode, pc, huser, cvars>>
    /\ UNCHANGED avars

\* ws_browser.py:88-93: the consumer went away.
StreamDisconnect(b) ==
    /\ pc[b] = "loop"
    /\ b \in closed
    /\ StreamFinally(b)
    /\ UNCHANGED <<futures, closed, closeCode, huser, cvars>>
    /\ UNCHANGED avars

\* ------------------------------------------------------- chat handler
ChatMsgs ==
    {[type |-> "chat", include_screenshot |-> i] : i \in BOOLEAN}
    \cup {[type |-> "describe"], [type |-> "reset"], [type |-> "malformed"]}

\* The commands the command source returns: n opaque descriptors.
Actions(n) == [i \in 1..n |-> [type |-> "click", x |-> i]]

ActionMsg(rid, acts) ==
    [type |-> "action", request_id |-> rid, actions |-> acts]

\* ws_browser.py:172-173: what the caller gets when no result arrives.
TimeoutResults(acts) == <<[error |-> "Agent did not respond in time"]>>

\* ws_browser.py:174-175: what the caller gets when the send raised.
SendErrorResults(acts) == <<[error |-> "send failed"]>>

ResponseMsg(results) == [type |-> "response", action_results |-> results]

\* ws_browser.py:108-113: accept, get or create the session.
ChatAccept(c, u) ==
    /\ sessions' = [get_or_create_session(sessions, u) EXCEPT ![u].chat_agent = TRUE]
    /\ huser' = [huser EXCEPT ![c] = u]
    /\ pc' = [pc EXCEPT ![c] = "loop"]
    /\ UNCHANGED <<futures, closed, closeCode, out, cvars>>

ChatConnect(c) ==
    /\ pc[c] = "init"
    /\ \E tok \in Tokens : IF tok = 0 THEN Reject(c) ELSE ChatAccept(c, tok)
    /\ UNCHANGED avars

\* ws_browser.py:115-145 and 205-237: a message from the chat client, up to
\* the first await that can suspend the handler.  overLimit: the usage check
\* of the billing collaborator refuses the request.
ChatHandle(c, data, overLimit) ==
    /\ pc[c] = "loop"
    /\ c \notin closed
    /\ CASE data.type = "chat" /\ overLimit ->
             /\ out' = Sent(out, c, [type |-> "error"])
             /\ UNCHANGED <<pc, cinc>>
         [] data.type = "chat" /\ ~overLimit ->
             /\ out' = Sent(out, c, [type |-> "status", status |-> "thinking"])
             /\ pc' = [pc EXCEPT ![c] = "thinking"]
             /\ cinc' = [cinc EXCEPT ![c] = Get(data, "include_screenshot", TRUE)]
         [] data.type = "describe" /\ ~overLimit ->
             /\ out' = Sent(out, c, [type |-> "status", status |-> "thinking"])
             /\ pc' = [pc EXCEPT ![c] = "describing"]
             /\ UNCHANGED cinc
         [] data.type = "reset" /\ ~overLimit ->
             /\ out' = Sent(out, c, [type |-> "status", status |-> "reset"])
             /\ UNCHANGED <<pc, cinc>>
         [] data.type = "malformed" /\ ~overLimit ->
             /\ pc' = [pc EXCEPT ![c] = "done"]
             /\ UNCHANGED <<out, cinc>>
         [] OTHER -> FALSE
    /\ UNCHANGED <<sessions, futures, closed, closeCode, huser, creq, cctx, cacts>>

ChatRecv(c, msgs, limits) ==
    /\ \E data \in msgs, overLimit \in limits : ChatHandle(c, data, overLimit)
    /\ UNCHANGED avars

\* ws_browser.py:147-153 and 212-220: pick the context frame and call the
\* command source.
ContextFrame(f, include) ==
    IF include /\ f # NoFrame THEN Get(f, "data", None) ELSE None

ChatCall(c) ==
    /\ pc[c] \in {"thinking", "describing"}
    /\ cctx' = [cctx EXCEPT ![c] =
                 ContextFrame(sessions[huser[c]].latest_frame,
                              IF pc[c] = "describing" THEN TRUE ELSE cinc[c])]
    /\ pc' = [pc EXCEPT ![c] = IF pc[c] = "thinking" THEN "llm" ELSE "llm_describe"]
    /\ UNCHANGED <<sessions, futures, closed, closeCode, huser, out,
                   creq, cinc, cacts>>
    /\ UNCHANGED avars

\* ws_browser.py:179-203: send the response and go back to receiving; a
\* failed send ends the handler.  The locals of the request are dead here.
Respond(c, results) ==
    /\ cctx' = [cctx EXCEPT ![c] = None]
    /\ cinc' = [cinc EXCEPT ![c] = FALSE]
    /\ cacts' = [cacts EXCEPT ![c] = <<>>]
    /\ creq' = [creq EXCEPT ![c] = 0]
    /\ IF SendFails(c)
       THEN /\ pc' = [pc EXCEPT ![c] = "done"]
            /\ out' = out
       ELSE /\ pc' = [pc EXCEPT ![c] = "loop"]
            /\ out' = Sent(out, c, ResponseMsg(results))

\* ws_browser.py:222-229: the answer to a describe request.
ChatDescribed(c) ==
    /\ pc[c] = "llm_describe"
    /\ Respond(c, <<>>)
    /\ UNCHANGED <<sessions, futures, closed, closeCode, huser>>
    /\ UNCHANGED avars

\* ws_browser.py:157-167: register a future and send the batch.
IssueBatch(c, acts) ==
    LET u == huser[c]
        a == sessions[u].agent_ws
        rid == Len(futures) + 1
    IN /\ rid <= MaxReq
       /\ futures' = Append(futures, [state |-> "pending", result |-> <<>>])
       /\ IF SendFails(a)
          THEN /\ sessions' = [sessions EXCEPT ![u].pending_action_future = 0]
               /\ Respond(c, SendErrorResults(acts))
          ELSE /\ sessions' = [sessions EXCEPT ![u].pending_action_future = rid]
               /\ out' = Sent(out, a, ActionMsg(rid, acts))
               /\ pc' = [pc EXCEPT ![c] = "waiting"]
               /\ creq' = [creq EXCEPT ![c] = rid]
               /\ cacts' = [cacts EXCEPT ![c] = acts]
               /\ UNCHANGED <<cctx, cinc>>

\* ws_browser.py:155-177: the command source returned n actions.
ChatDispatch(c) ==
    /\ pc[c] = "llm"
    /\ \E n \in 0..MaxCmds :
        IF n > 0 /\ sessions[huser[c]].agent_ws # None
        THEN IssueBatch(c, Actions(n))
        ELSE /\ Respond(c, <<>>)
             /\ UNCHANGED <<sessions, futures>>
    /\ UNCHANGED <<closed, closeCode, huser>>
    /\ UNCHANGED avars

\* ws_browser.py:169-171: the future the handler is awaiting.
Awaited(c) ==
    IF creq[c] \in 1..Len(futures)
    THEN futures[creq[c]]
    ELSE [state |-> "none", result |-> <<>>]

\* ws_browser.py:169-177: the awaited future has a result.
ChatResume(c) ==
    /\ pc[c] = "waiting"
    /\ Awaited(c).state = "done"
    /\ sessions' = [sessions EXCEPT ![huser[c]].pending_action_future = 0]
    /\ Respond(c, Awaited(c).result)
    /\ UNCHANGED <<futures, closed, closeCode, huser>>
    /\ UNCHANGED avars

\* A wait without a timeout; C5 does not hold of it.
ChatWaitForever(c) ==
    /\ pc[c] = "waiting"
    /\ Awaited(c).state = "pending"
    /\ UNCHANGED vars

\* ws_browser.py:169-177: 30 s passed without a result.
ChatTimeout(c) ==
    /\ pc[c] = "waiting"
    /\ Awaited(c).state = "pending"
    /\ futures' = [futures EXCEPT ![creq[c]].state = "cancelled"]
    /\ sessions' = [sessions EXCEPT ![huser[c]].pending_action_future = 0]
    /\ Respond(c, TimeoutResults(cacts[c]))
    /\ UNCHANGED <<closed, closeCode, huser>>
    /\ UNCHANGED avars

\* ws_browser.py:239-246: the chat client went away.
ChatDisconnect(c) ==
    /\ pc[c] = "loop"
    /\ c \in closed
    /\ pc' = [pc EXCEPT ![c] = "done"]
    /\ UNCHANGED <<sessions, futures, closed, closeCode, huser, out, cvars>>
    /\ UNCHANGED avars

\* ------------------------------------------------------------ agent link
\* Values of a command descriptor are kept as their JSON text, so "2" is
\* the number 2 and "\"2\"" is the string "2".
IsJsonNumber(v) == v \in {"1.0", "2"}

valid_types == {"click", "type", "key", "scroll", "move", "screenshot", "wait"}

\* input_control.py:64-86.  d.get("type") missing or not a valid type: None.
\* min(d.get("seconds", 1.0), 10.0) raises TypeError when the value is not a
\* number; the exception leaves from_dict.
from_dict(d) ==
    LET action_type == Get(d, "type", None)
    IN IF action_type = None \/ action_type \notin valid_types
       THEN [parsed |-> "none"]
       ELSE IF ~IsJsonNumber(Get(d, "seconds", "1.0"))
       THEN [parsed |-> "raised"]
       ELSE [parsed |-> "action", type |-> action_type,
             keys |-> Get(d, "keys", None)]

\* input_control.py:45-62: the fields of the log entry that the model keeps.
to_dict(action) ==
    IF action.keys # None
    THEN [type |-> action.type, keys |-> action.keys]
    ELSE [type |-> action.type]

\* The JSON strings used as key combinations, with str.lower().strip()
\* applied to each.
KeyText ==
    [k \in {"\"ctrl+s\"", "\"enter\"", "\"alt+f4\"", "\" Alt+F4 \""} |->
        CASE k = "\"ctrl+s\"" -> "ctrl+s"
          [] k = "\"enter\"" -> "enter"
          [] OTHER -> "alt+f4"]

dangerous == {"alt+f4", "ctrl+alt+delete", "super+l"}

\* input_control.py:173-192: _do_key.  A value that is not a string has no
\* lower(): AttributeError.  The input library may fail.
_do_key(action) ==
    IF action.keys = None
    THEN {[raised |-> FALSE, ret |-> "Error: key requires keys", events |-> <<>>]}
    ELSE IF action.keys \notin DOMAIN KeyText
    THEN {[raised |-> TRUE, ret |-> "AttributeError", events |-> <<>>]}
    ELSE LET keys == KeyText[action.keys]
         IN IF keys \in dangerous
            THEN {[raised |-> FALSE, ret |-> "Blocked dangerous key combo: " \o keys,
                   events |-> <<>>]}
            ELSE {[raised |-> FALSE, ret |-> "Pressed: " \o keys,
                   events |-> <<"key " \o keys>>],
                  [raised |-> TRUE, ret |-> "input failed", events |-> <<>>]}

\* input_control.py:128-147: _execute_sync.
_execute_sync(action) ==
    IF action.type = "screenshot"
    THEN {[raised |-> FALSE, ret |-> "screenshot_requested", events |-> <<>>]}
    ELSE IF action.type = "key"
    THEN _do_key(action)
    ELSE {[raised |-> FALSE, ret |-> "done " \o action.type,
           events |-> <<action.type>>],
          [raised |-> TRUE, ret |-> "input failed", events |-> <<>>]}

\* A log view that is never trimmed; C34 does not hold of it.
action_log_untrimmed(log) ==
    log

\* input_control.py:111-113: the action_log property, self._action_log[-100:].
action_log(log) ==
    IF Len(log) <= LogSize
    THEN log
    ELSE SubSeq(log, Len(log) - LogSize + 1, Len(log))

Disabled == "Action execution is disabled. Enable it in settings."

\* execute without its gate: every action is logged and dispatched.
execute_ungated(action, enabled) ==
    {[raised |-> r.raised, ret |-> r.ret, events |-> r.events, dispatched |-> TRUE] :
        r \in _execute_sync(action)}

\* input_control.py:115-126: what execute returns or raises, whether the
\* action was logged and dispatched to _execute_sync, and the input events
\* of the dispatch.  Nothing is dispatched while the gate is closed.
execute(action, enabled) ==
    IF ~enabled
    THEN {[raised |-> FALSE, ret |-> Disabled, events |-> <<>>, dispatched |-> FALSE]}
    ELSE {[raised |-> r.raised, ret |-> r.ret, events |-> r.events,
           dispatched |-> TRUE] : r \in _execute_sync(action)}

Descriptors ==
    {[type |-> "click", x |-> "10", y |-> "20"],
     [type |-> "screenshot"],
     [type |-> "launch"],
     [x |-> "10"],
     [type |-> "wait", seconds |-> "\"2\""]}

DescriptorLists ==
    UNION {[1..n -> Descriptors] : n \in 0..MaxCmds}

\* One descriptor of every action type, and the descriptors that are not
\* actions.
Variants ==
    Descriptors \cup
    {[type |-> "type", text |-> "\"a\""],
     [type |-> "key", keys |-> "[\"enter\"]"],
     [type |-> "scroll"],
     [type |-> "move", x |-> "10", y |-> "20"],
     [type |-> "wait", seconds |-> "2"]}

ControlCmd(cmd) == [type |-> "control", command |-> cmd]

\* What the broker may send on the agent link.
LinkMsgs ==
    {ActionMsg(rid, acts) : rid \in 1..MaxReq, acts \in DescriptorLists}
    \cup {ControlCmd(cmd) : cmd \in {"enable_actions", "disable_actions", "reboot"}}
    \cup {[type |-> "pong"], [type |-> "unknown"], [type |-> "malformed"]}

\* Key commands: combinations that are pressed, denylisted ones as sent
\* and in another case with blanks around, a list, and no keys at all.
KeyDescriptors ==
    {[type |-> "key", keys |-> k] : k \in DOMAIN KeyText}
    \cup {[type |-> "key", keys |-> "[\"enter\"]"], [type |-> "key"]}

KeyLists ==
    UNION {[1..n -> KeyDescriptors] : n \in 1..MaxCmds}

\* Batches of key commands, and the commands that open and close the gate.
KeyMsgs ==
    {ActionMsg(1, acts) : acts \in KeyLists}
    \cup {ControlCmd(cmd) : cmd \in {"enable_actions", "disable_actions"}}

\* Batches of one command of every variant, and the control commands.
GateMsgs ==
    {ActionMsg(1, <<d>>) : d \in Variants}
    \cup {ControlCmd(cmd) : cmd \in {"enable_actions", "disable_actions", "reboot"}}

LinkStatusMsg(enabled) ==
    [type |-> "status", agent_status |-> "running", actions_enabled |-> enabled]

\* ws_client.py:250-266 and 279-288: nothing is sent once _connected is
\* False; a send that raises is swallowed and clears _connected.
LinkSend(m) ==
    /\ lout' = IF lconnected /\ ~lclosed THEN Append(lout, m) ELSE lout
    /\ lconnected' = (lconnected /\ ~lclosed)

NoDelay == [num |-> 0, den |-> 1]
Seconds(n) == [num |-> n, den |-> 1]

\* A fraction is past the cap when the base delay times it exceeds the
\* maximal delay.
PastCap(p) == reconnect_delay * p.num > max_reconnect_delay * p.den

\* The product of two fractions.  Once a factor is past the cap its
\* magnitude is not kept: min() returns the cap from there on.
Times(p, q) ==
    IF PastCap(p) THEN p
    ELSE IF PastCap(q) THEN q
    ELSE [num |-> p.num * q.num, den |-> p.den * q.den]

\* The float backoff ** n as a fraction, by repeated squaring.
RECURSIVE Power(_)
Power(n) ==
    IF n = 0
    THEN [num |-> 1, den |-> 1]
    ELSE LET h == Power(n \div 2)
             sq == Times(h, h)
         IN IF n % 2 = 1
            THEN Times(sq, [num |-> BackoffNum, den |-> BackoffDen])
            ELSE sq

\* ws_client.py:299-302.  The float power raises OverflowError when its
\* result is past the largest double.
_get_reconnect_delay(n) ==
    IF n >= PowOverflow
    THEN [raised |-> TRUE, delay |-> NoDelay]
    ELSE LET p == Power(n)
         IN IF PastCap(p)
            THEN [raised |-> FALSE, delay |-> Seconds(max_reconnect_delay)]
            ELSE [raised |-> FALSE,
                  delay |-> [num |-> reconnect_delay * p.num, den |-> p.den]]

\* ws_client.py:55-58: start().
\* asyncio.Task.cancel() on the frame task of the current connection
\* (ws_client.py:100-101 and 138-139): a request the task acts on when it
\* runs next; a task that is done ignores it.
CancelLast(ft) ==
    IF ft # <<>> /\ ft[Len(ft)].pc # "done"
    THEN [ft EXCEPT ![Len(ft)].cancel = TRUE]
    ELSE ft

LifeStart ==
    /\ lpc = "init"
    /\ lrunning' = TRUE
    /\ lstatus' = "connecting"
    /\ lpc' = "connecting"
    /\ UNCHANGED <<lmsg, lidx, lresults, lin, lout, lconnected, lclosed, lenabled,
                   lcount, ldelay, lclean, ltasks, ftask, evars, xlink>>

\* ws_client.py:110-135: the connect succeeded; send the initial status and
\* start the frame and keepalive tasks, whose loops go on only while
\* _running and _connected (ws_client.py:237, 292).
LinkConnect ==
    /\ lpc = "connecting"
    /\ Len(lout) < MaxLinkOut
    /\ lpc' = "idle"
    /\ lconnected' = TRUE
    /\ lcount' = 0
    /\ lstatus' = "connected"
    /\ lclosed' = FALSE
    /\ lclean' = FALSE
    /\ ltasks' = lrunning
    /\ ftask' = Append(ftask, [pc |-> "created", cancel |-> FALSE])
    /\ lout' = Append(lout, LinkStatusMsg(lenabled))
    /\ UNCHANGED <<lmsg, lidx, lresults, lin, lenabled, lrunning, ldelay, evars, xlink>>

\* ws_client.py:61-69 and 80-86: the handler of a failure that backs off.
\* An exception of _get_reconnect_delay leaves start().
Backoff(status) ==
    IF ~lrunning
    THEN /\ lpc' = "ended"
         /\ UNCHANGED <<lconnected, lstatus, ldelay>>
    ELSE /\ lconnected' = FALSE
         /\ lstatus' = status
         /\ LET d == _get_reconnect_delay(lcount)
            IN IF d.raised
               THEN lpc' = "dead" /\ ldelay' = ldelay
               ELSE lpc' = "disconnected" /\ ldelay' = d.delay

\* ws_client.py:72-79 and 87-93: the handlers that wait a fixed time.
FixedWait(status, seconds, pos) ==
    IF ~lrunning
    THEN /\ lpc' = "ended"
         /\ UNCHANGED <<lconnected, lstatus, ldelay>>
    ELSE /\ lconnected' = FALSE
         /\ lstatus' = status
         /\ ldelay' = Seconds(seconds)
         /\ lpc' = pos

\* How a connect attempt may fail: the network refuses it (OSError), the
\* server answers the handshake with HTTP 401, the broker closes the
\* unaccepted connection with code 4001 (ws_agent.py:41-49), which the
\* ASGI server turns into an HTTP 403 answer to the handshake, or the
\* attempt raises anything else.
ConnectFailures == {"refused", "http401", "rejected", "other"}

\* ws_client.py:61-93: websockets.connect raised.
LifeConnectFail(outcome) ==
    /\ lpc = "connecting"
    /\ CASE outcome = "refused" -> Backoff("disconnected")
         [] outcome = "http401" -> FixedWait("auth_failed", AuthCooldown, "cooldown")
         [] outcome = "rejected" -> Backoff("error")
         [] OTHER -> FixedWait("error", ErrorWait, "crashed")
    /\ UNCHANGED <<lmsg, lidx, lresults, lin, lout, lclosed, lenabled, lrunning,
                   lcount, lclean, ltasks, ftask, evars, xlink>>

\* ws_client.py:59-60, 68-69, 79, 85-86, 93: the sleep is over; the counter
\* is incremented after a backoff and the loop tests _running.
LifeRetry ==
    /\ lpc \in {"disconnected", "cooldown", "crashed"}
    /\ lpc = "disconnected" => lcount < MaxAttempt
    /\ lcount' = IF lpc = "disconnected" THEN lcount + 1 ELSE lcount
    /\ ldelay' = NoDelay
    /\ lpc' = IF lrunning THEN "connecting" ELSE "ended"
    /\ UNCHANGED <<lmsg, lidx, lresults, lin, lout, lconnected, lclosed, lenabled,
                   lrunning, lstatus, lclean, ltasks, ftask, evars, xlink>>

\* ws_client.py:141-145 and 59-60: after a close with code 1000 or 1001
\* the message iterator ends without an exception, _connect_and_run
\* returns and the loop of start() goes on at once.
LifeCleanClose ==
    /\ lpc = "idle"
    /\ lclosed
    /\ lclean
    /\ ltasks' = FALSE
    /\ ftask' = CancelLast(ftask)
    /\ lpc' = IF lrunning THEN "connecting" ELSE "ended"
    /\ UNCHANGED <<lmsg, lidx, lresults, lin, lout, lconnected, lclosed, lenabled,
                   lrunning, lstatus, lcount, ldelay, lclean, evars, xlink>>

\* ws_client.py:95-108: stop().  self._ws is the transport of the current
\* connection, if there is one.
LifeStop ==
    /\ lrunning
    /\ lrunning' = FALSE
    /\ lstatus' = "disconnected"
    /\ ltasks' = FALSE
    /\ ftask' = IF lpc \in {"idle", "exec", "followup"}
                THEN CancelLast(ftask)
                ELSE ftask
    /\ lconnected' = FALSE
    /\ IF lpc \in {"idle", "exec", "followup"} /\ ~lclosed
       THEN lclosed' = TRUE /\ lclean' = TRUE
       ELSE UNCHANGED <<lclosed, lclean>>
    /\ UNCHANGED <<lpc, lmsg, lidx, lresults, lin, lout, lenabled, lcount, ldelay,
                   evars, xlink>>

\* ws_client.py:211-231: a control command, then the updated status.
LinkControl(m) ==
    /\ lenabled' = CASE m.command = "enable_actions" -> TRUE
                     [] m.command = "disable_actions" -> FALSE
                     [] OTHER -> lenabled
    /\ LinkSend(LinkStatusMsg(lenabled'))
    /\ UNCHANGED <<lpc, lmsg, lidx, lresults>>

\* ws_client.py:142-143 and 147-171: the message loop takes the next message,
\* one of msgs.
LinkRecvFrom(msgs) ==
    /\ lpc = "idle"
    /\ ~lclosed
    /\ Len(lin) < MaxLinkMsgs
    /\ \E m \in msgs :
        /\ lin' = Append(lin, m)
        /\ CASE m.type = "action" ->
                  /\ lpc' = "exec"
                  /\ lmsg' = m
                  /\ lidx' = 1
                  /\ lresults' = <<>>
                  /\ UNCHANGED <<lout, lconnected, lenabled>>
             [] m.type = "control" -> LinkControl(m)
             [] OTHER ->
                  UNCHANGED <<lpc, lmsg, lidx, lresults, lout, lconnected, lenabled>>
    /\ UNCHANGED <<lclosed, rvars, evars, xlink>>

LinkRecv == LinkRecvFrom(LinkMsgs)

GateRecv == LinkRecvFrom(GateMsgs)

KeyRecv == LinkRecvFrom(KeyMsgs)

InvalidEntry == [status |-> "error", message |-> "Invalid action"]

\* A handler that records the message of an exception as a success; C29
\* does not hold of it.
ErrorEntryOk(r) == [status |-> "ok", message |-> r.ret]

\* ws_client.py:192-194: the result entry of a command whose execution raised.
ErrorEntry(r) == [status |-> "error", message |-> r.ret]

\* ws_client.py:172-196: one turn of the loop over the descriptors.  An
\* exception of from_dict is outside the try block: it ends _handle_action
\* and the message loop, and start() (ws_client.py:87-93) clears _connected.
LinkExec ==
    /\ lpc = "exec"
    /\ lidx <= Len(lmsg.actions)
    /\ LET action == from_dict(lmsg.actions[lidx])
       IN CASE action.parsed = "raised" ->
                 /\ FixedWait("error", ErrorWait, "crashed")
                 /\ ltasks' = FALSE
                 /\ ftask' = CancelLast(ftask)
                 /\ UNCHANGED <<lidx, lresults, lout, evars>>
            [] action.parsed = "none" ->
                 /\ lresults' = Append(lresults, InvalidEntry)
                 /\ lidx' = lidx + 1
                 /\ UNCHANGED <<lpc, lout, lconnected, lstatus, ldelay, ltasks, ftask, evars>>
            [] OTHER ->
                 /\ lidx' = lidx + 1
                 /\ UNCHANGED <<lpc, lstatus, ldelay, ltasks, ftask>>
                 /\ \E r \in execute(action, lenabled) :
                      /\ llog' = IF r.dispatched
                                 THEN Append(llog, to_dict(action))
                                 ELSE llog
                      /\ levents' = levents \o r.events
                      /\ IF r.raised
                         THEN /\ lresults' = Append(lresults, ErrorEntry(r))
                              /\ UNCHANGED <<lout, lconnected>>
                         ELSE IF r.ret = "screenshot_requested"
                         THEN /\ lresults' = Append(lresults,
                                     [status |-> "ok", message |-> "Screenshot captured"])
                              /\ \E k \in 0..MaxSeq :
                                   IF k = 0
                                   THEN UNCHANGED <<lout, lconnected>>
                                   ELSE LinkSend(FrameMsg(k))
                         ELSE /\ lresults' = Append(lresults,
                                     [status |-> "ok", message |-> r.ret])
                              /\ UNCHANGED <<lout, lconnected>>
    /\ UNCHANGED <<lmsg, lin, lclosed, lenabled, lrunning, lcount, lclean, xlink>>

\* ws_client.py:198-203: send the results of the batch.
LinkReply ==
    /\ lpc = "exec"
    /\ lidx > Len(lmsg.actions)
    /\ LinkSend([type |-> "action_result", request_id |-> lmsg.request_id,
                 results |-> lresults])
    /\ lpc' = "followup"
    /\ UNCHANGED <<lmsg, lidx, lresults, lin, lclosed, lenabled, rvars, evars, xlink>>

\* ws_client.py:205-209: the follow-up frame, when the capture gave one.
LinkFollowUp ==
    /\ lpc = "followup"
    /\ \E k \in 0..MaxSeq :
         IF k = 0 THEN UNCHANGED <<lout, lconnected>> ELSE LinkSend(FrameMsg(k))
    /\ lpc' = "idle"
    /\ lmsg' = NoMsg
    /\ lidx' = 0
    /\ lresults' = <<>>
    /\ UNCHANGED <<lin, lclosed, lenabled, rvars, evars, xlink>>

\* agent_main.py:223-225: the tray menu calls enable() or disable()
\* (input_control.py:103-109).
TrayToggle(enabled) ==
    /\ lpc # "init"
    /\ lenabled' = enabled
    /\ UNCHANGED <<lpc, lmsg, lidx, lresults, lin, lout, lconnected, lclosed,
                   evars, rvars, xlink>>

\* The broker closes the transport, with a close code that is 1000 or 1001
\* (clean) or any other, or the transport is lost.
LinkPeerClose ==
    /\ lpc \in {"idle", "exec", "followup"}
    /\ ~lclosed
    /\ lclosed' = TRUE
    /\ \E clean \in BOOLEAN : lclean' = clean
    /\ UNCHANGED <<lpc, lmsg, lidx, lresults, lin, lout, lconnected, lenabled,
                   lrunning, lstatus, lcount, ldelay, ltasks, ftask, evars, xlink>>

\* ws_client.py:141-145 and 61-69: the message loop ends with
\* ConnectionClosed.
LinkDisconnected ==
    /\ lpc = "idle"
    /\ lclosed
    /\ ~lclean
    /\ ltasks' = FALSE
    /\ ftask' = CancelLast(ftask)
    /\ Backoff("disconnected")
    /\ UNCHANGED <<lmsg, lidx, lresults, lin, lout, lclosed, lenabled, lrunning,
                   lcount, lclean, evars, xlink>>

\* -------------------------------------------------------- capture engine
\* The perceptual hash of a screen image stands for the image.  The hashes
\* differ in nested sets of bits, so their Hamming distance is the
\* difference of the numbers: 0 and 4, and 4 and 8, are within the
\* threshold of each other, 0 and 8 are not.
Hashes == {0, 4, 8}

diff(h1, h2) == IF h1 >= h2 THEN h1 - h2 ELSE h2 - h1

Frame(h, n, changed) ==
    [type |-> "frame",
     image_b64 |-> IF changed THEN "jpeg" \o ToString(h) ELSE "",
     frame_number |-> n, changed |-> changed]

\* capture.py:201-271: _grab_frame on a screen image of hash h.  It gives
\* the returned frame and the new _last_hash and _frame_number.  A grab that
\* raises returns None and changes nothing.
_grab_frame(h, force, raises) ==
    LET changed == IF klast_hash # NoHash
                   THEN force \/ (diff(klast_hash, h) > Threshold)
                   ELSE TRUE
    IN IF raises
       THEN [frame |-> NoFrame, last_hash |-> klast_hash,
             frame_number |-> kframe_number]
       ELSE IF ~changed /\ ~force
       THEN [frame |-> Frame(h, kframe_number, FALSE), last_hash |-> klast_hash,
             frame_number |-> kframe_number]
       ELSE [frame |-> Frame(h, kframe_number + 1, TRUE), last_hash |-> h,
             frame_number |-> kframe_number + 1]

\* A publish that drops the new frame when the queue is full; C14 does not
\* hold of it.
PublishDropNewest(q, frame) ==
    IF Len(q) < QueueSize THEN Append(q, frame) ELSE q

\* capture.py:178-187: put_nowait; on QueueFull drop the oldest and put.
Publish(q, frame) ==
    IF Len(q) < QueueSize THEN Append(q, frame) ELSE Append(Tail(q), frame)

\* capture.py:106-117: start the capture loop.
CapStart ==
    /\ ~krunning
    /\ krunning' = TRUE
    /\ kpc' = "tick"
    /\ UNCHANGED <<kpaused, kloop, kforced, kframe_number, klast_hash, klatest,
                   ksubs, kprev, xcap>>

\* capture.py:130-138: pause() and resume().
CapPause ==
    /\ ~kpaused
    /\ kpaused' = TRUE
    /\ UNCHANGED <<krunning, kpc, kloop, kforced, kframe_number, klast_hash,
                   klatest, ksubs, kprev, xcap>>

CapResume ==
    /\ kpaused
    /\ kpaused' = FALSE
    /\ UNCHANGED <<krunning, kpc, kloop, kforced, kframe_number, klast_hash,
                   klatest, ksubs, kprev, xcap>>

\* capture.py:95-104: subscribe() and unsubscribe().
CapSubscribe(s) ==
    /\ s \notin DOMAIN ksubs
    /\ ksubs' = ksubs @@ (s :> <<>>)
    /\ UNCHANGED <<krunning, kpaused, kpc, kloop, kforced, kframe_number,
                   klast_hash, klatest, kprev, xcap>>

CapUnsubscribe(s) ==
    /\ s \in DOMAIN ksubs
    /\ ksubs' = [t \in DOMAIN ksubs \ {s} |-> ksubs[t]]
    /\ UNCHANGED <<krunning, kpaused, kpc, kloop, kforced, kframe_number,
                   klast_hash, klatest, kprev, xcap>>

\* ws_client.py:238-239: a subscriber takes the oldest frame of its queue.
CapGet(s) ==
    /\ s \in DOMAIN ksubs
    /\ ksubs[s] # <<>>
    /\ ksubs' = [ksubs EXCEPT ![s] = Tail(@)]
    /\ UNCHANGED <<krunning, kpaused, kpc, kloop, kforced, kframe_number,
                   klast_hash, klatest, kprev, xcap>>

\* capture.py:162-171: one turn of the loop up to the return of the grab.
CapGrab ==
    /\ kpc = "tick"
    /\ krunning
    /\ ~kpaused
    /\ kframe_number < MaxFrames
    /\ \E h \in Hashes, raises \in BOOLEAN :
         LET g == _grab_frame(h, FALSE, raises)
         IN /\ kloop' = g.frame
            /\ klast_hash' = g.last_hash
            /\ kframe_number' = g.frame_number
            /\ kprev' = IF raises THEN kprev ELSE [hash |-> h, forced |-> FALSE]
    /\ kpc' = "grabbed"
    /\ UNCHANGED <<krunning, kpaused, kforced, klatest, ksubs, xcap>>

\* A loop whose failed grab ends it; C31 does not hold of it.
CapPublishStopOnFailure ==
    /\ kpc = "grabbed"
    /\ IF kloop # NoFrame /\ kloop.changed
       THEN /\ klatest' = kloop
            /\ ksubs' = [s \in DOMAIN ksubs |-> Publish(ksubs[s], kloop)]
       ELSE UNCHANGED <<klatest, ksubs>>
    /\ kpc' = IF kloop = NoFrame THEN "crashed" ELSE "tick"
    /\ UNCHANGED <<krunning, kpaused, kloop, kforced, kframe_number, klast_hash,
                   kprev, xcap>>

\* capture.py:173-193: the loop publishes a changed frame to every
\* subscriber and skips every other result.
CapPublish ==
    /\ kpc = "grabbed"
    /\ IF kloop # NoFrame /\ kloop.changed
       THEN /\ klatest' = kloop
            /\ ksubs' = [s \in DOMAIN ksubs |-> Publish(ksubs[s], kloop)]
       ELSE UNCHANGED <<klatest, ksubs>>
    /\ kpc' = "tick"
    /\ UNCHANGED <<krunning, kpaused, kloop, kforced, kframe_number, klast_hash,
                   kprev, xcap>>

\* capture.py:152-154: capture_single, a forced grab whose frame goes to the
\* caller.
CapForced ==
    /\ kframe_number < MaxFrames
    /\ \E h \in Hashes, raises \in BOOLEAN :
         LET g == _grab_frame(h, TRUE, raises)
         IN /\ kforced' = g.frame
            /\ klast_hash' = g.last_hash
            /\ kframe_number' = g.frame_number
            /\ kprev' = IF raises THEN kprev ELSE [hash |-> h, forced |-> TRUE]
    /\ UNCHANGED <<krunning, kpaused, kpc, kloop, klatest, ksubs, xcap>>

\* ------------------------------------------------------------ the broker
\* The relay: two producer connections and one consumer connection of the
\* same account.
Next ==
    \/ \E a \in AgentConns : AgentConnect(a)
    \/ \E a \in AgentConns : AgentRecv(a, AgentMsgs)
    \/ \E a \in AgentConns : AgentFwdFailed(a)
    \/ \E a \in AgentConns : AgentDisconnect(a)
    \/ \E b \in {"b1"} : StreamConnect(b)
    \/ \E b \in {"b1"} : StreamReplay(b)
    \/ \E b \in {"b1"} : StreamRecv(b, StreamMsgs)
    \/ \E b \in {"b1"} : StreamPing(b)
    \/ \E b \in {"b1"} : StreamDisconnect(b)
    \/ \E c \in AgentConns \cup {"b1"} : PeerClose(c)

Spec == Init /\ [][Next]_vars

\* Command dispatch: one producer connection and one chat connection.
NextChat ==
    \/ \E a \in {"a1"} : AgentConnect(a)
    \/ \E a \in {"a1"} : AgentRecv(a, AgentMsgs)
    \/ \E a \in {"a1"} : AgentDisconnect(a)
    \/ \E c \in {"c1"} : ChatConnect(c)
    \/ \E c \in {"c1"} : ChatRecv(c, ChatMsgs, BOOLEAN)
    \/ \E c \in {"c1"} : ChatCall(c)
    \/ \E c \in {"c1"} : ChatDescribed(c)
    \/ \E c \in {"c1"} : ChatDispatch(c)
    \/ \E c \in {"c1"} : ChatResume(c)
    \/ \E c \in {"c1"} : ChatTimeout(c)
    \/ \E c \in {"c1"} : ChatDisconnect(c)
    \/ \E c \in {"a1", "c1"} : PeerClose(c)

SpecChat == Init /\ [][NextChat]_vars

\* asyncio.wait_for arms a 30 s timer that fires unless the future is
\* resolved first, and the event loop runs every coroutine that is ready.
FairSpecChat ==
    /\ SpecChat
    /\ \A c \in {"c1"} : WF_vars(ChatTimeout(c)) /\ WF_vars(ChatResume(c))

\* The agent link handling the messages of the broker.
LinkNext ==
    \/ LifeStart
    \/ LinkConnect
    \/ LinkRecv
    \/ LinkExec
    \/ LinkReply
    \/ LinkFollowUp
    \/ LinkPeerClose
    \/ LinkDisconnected

LinkSpec == Init /\ [][LinkNext]_vars

\* The executor behind its gate: batches of one command of every variant,
\* the control commands and the tray menu.
\* One long batch of key commands: a denylisted combination (blocked), a
\* combination given as a list (the dispatch raises) and a command without
\* keys, in turn.
LogBatch ==
    [i \in 1..MaxLog |->
        CASE i % 3 = 1 -> [type |-> "key", keys |-> "\"alt+f4\""]
          [] i % 3 = 2 -> [type |-> "key", keys |-> "[\"enter\"]"]
          [] OTHER -> [type |-> "key"]]

LogMsgs ==
    {ActionMsg(1, LogBatch)}
    \cup {ControlCmd(cmd) : cmd \in {"enable_actions", "disable_actions"}}

LogRecv == LinkRecvFrom(LogMsgs)

LogNext ==
    \/ LifeStart
    \/ LinkConnect
    \/ LogRecv
    \/ LinkExec
    \/ LinkReply
    \/ LinkFollowUp
    \/ LinkPeerClose
    \/ LinkDisconnected

LogSpec == Init /\ [][LogNext]_vars

GateNext ==
    \/ LifeStart
    \/ LinkConnect
    \/ GateRecv
    \/ LinkExec
    \/ LinkReply
    \/ LinkFollowUp
    \/ \E enabled \in BOOLEAN : TrayToggle(enabled)
    \/ LinkPeerClose
    \/ LinkDisconnected

GateSpec == Init /\ [][GateNext]_vars

\* The executor of key commands.
KeyNext ==
    \/ LifeStart
    \/ LinkConnect
    \/ KeyRecv
    \/ LinkExec
    \/ LinkReply
    \/ LinkFollowUp
    \/ LinkPeerClose
    \/ LinkDisconnected

KeySpec == Init /\ [][KeyNext]_vars

\* The life of the agent link: connecting, losing the connection, waiting,
\* retrying and being stopped.
LifeNext ==
    \/ LifeStart
    \/ LinkConnect
    \/ \E outcome \in ConnectFailures : LifeConnectFail(outcome)
    \/ LifeRetry
    \/ LinkPeerClose
    \/ LinkDisconnected
    \/ LifeCleanClose
    \/ LifeStop

LifeSpec == Init /\ [][LifeNext]_vars

\* The capture engine and its subscribers.
\* ------------------------------------------- the link's frame forwarding
\* The queue capture.subscribe() hands to the frame task of connection n.
LinkQueue(n) == "q" \o ToString(n)

\* capture.py:101-104: unsubscribe().
unsubscribe(subs, q) ==
    [t \in DOMAIN subs \ {q} |-> subs[t]]

\* What a step of a frame task leaves alone.
xtask ==
    <<bvars, lpc, lmsg, lidx, lresults, lin, lclosed, lenabled, evars, lrunning,
      lstatus, lcount, ldelay, lclean, ltasks, krunning, kpaused, kpc, kloop,
      kforced, kframe_number, klast_hash, klatest, kprev, gvars>>

\* ws_client.py:233-235: the task created by connection n runs for the
\* first time and subscribes.  A task that was cancelled before its first
\* run never enters _stream_frames.
FrameTaskStart(n) ==
    /\ n \in DOMAIN ftask
    /\ ftask[n].pc = "created"
    /\ IF ftask[n].cancel
       THEN /\ ftask' = [ftask EXCEPT ![n].pc = "done"]
            /\ ksubs' = ksubs
       ELSE /\ ftask' = [ftask EXCEPT ![n].pc = "waiting"]
            /\ ksubs' = ksubs @@ (LinkQueue(n) :> <<>>)
    /\ UNCHANGED <<lout, lconnected, xtask>>

\* ws_client.py:238-239 and 250-266: take the oldest frame of the queue and
\* send it; a send that raises clears _connected.
FrameTaskSend(n) ==
    /\ n \in DOMAIN ftask
    /\ ftask[n].pc = "waiting"
    /\ ~ftask[n].cancel
    /\ lrunning
    /\ lconnected
    /\ ksubs[LinkQueue(n)] # <<>>
    /\ LET frame == Head(ksubs[LinkQueue(n)])
       IN LinkSend([type |-> "frame", image_b64 |-> frame.image_b64,
                    frame_number |-> frame.frame_number])
    /\ ksubs' = [ksubs EXCEPT ![LinkQueue(n)] = Tail(@)]
    /\ UNCHANGED <<ftask, xtask>>

\* A frame task that ends without its finally clause; C39 does not hold of
\* it.
FrameTaskEndLeak(n) ==
    /\ n \in DOMAIN ftask
    /\ ftask[n].pc = "waiting"
    /\ IF ftask[n].cancel THEN TRUE ELSE ~(lrunning /\ lconnected)
    /\ ftask' = [ftask EXCEPT ![n].pc = "done"]
    /\ UNCHANGED <<ksubs, lout, lconnected, xtask>>

\* ws_client.py:236-248: the loop ends because _running or _connected is
\* false at its head, or the task's await raises CancelledError; the finally
\* clause unsubscribes the queue.
FrameTaskEnd(n) ==
    /\ n \in DOMAIN ftask
    /\ ftask[n].pc = "waiting"
    /\ IF ftask[n].cancel THEN TRUE ELSE ~(lrunning /\ lconnected)
    /\ ftask' = [ftask EXCEPT ![n].pc = "done"]
    /\ ksubs' = unsubscribe(ksubs, LinkQueue(n))
    /\ UNCHANGED <<lout, lconnected, xtask>>

\* The event loop runs a task whose cancellation was requested in its next
\* iteration, before the timer of a backoff sleep fires or a connection
\* attempt completes.
Settled ==
    \A n \in DOMAIN ftask : ftask[n].cancel => ftask[n].pc = "done"

SubConnect == Settled /\ LinkConnect

SubNext ==
    \/ LifeStart
    \/ SubConnect
    \/ LifeRetry
    \/ LinkPeerClose
    \/ LinkDisconnected
    \/ LifeCleanClose
    \/ LifeStop
    \/ \E n \in 1..MaxLinkOut + 1 : FrameTaskStart(n)
    \/ \E n \in 1..MaxLinkOut + 1 : FrameTaskSend(n)
    \/ \E n \in 1..MaxLinkOut + 1 : FrameTaskEnd(n)
    \/ CapStart
    \/ CapGrab
    \/ CapPublish

SubSpec == Init /\ [][SubNext]_vars

\* capture.py:201-250: a worker thread runs _grab_frame up to the store of
\* _last_hash. The thread of the loop is started by a turn of the loop
\* (capture.py:169), the other one by capture_single (capture.py:152-154). A
\* grab that fails or finds no change returns at once.
RaceDeliver(t, frame) ==
    IF t = "loop"
    THEN kloop' = frame /\ kpc' = "grabbed" /\ kforced' = kforced
    ELSE kforced' = frame /\ kloop' = kloop /\ kpc' = kpc

RaceBegin(t) ==
    /\ gpc[t] = "idle"
    /\ kframe_number < MaxRace
    /\ IF t = "loop" THEN kpc = "tick" /\ krunning /\ ~kpaused ELSE TRUE
    /\ \E h \in Hashes, raises \in BOOLEAN :
         LET force == t = "forced"
             changed == IF klast_hash # NoHash
                        THEN force \/ (diff(klast_hash, h) > Threshold)
                        ELSE TRUE
         IN IF raises
            THEN /\ RaceDeliver(t, NoFrame)
                 /\ UNCHANGED <<klast_hash, kprev, gvars>>
            ELSE IF ~changed /\ ~force
            THEN /\ RaceDeliver(t, Frame(h, kframe_number, FALSE))
                 /\ kprev' = [hash |-> h, forced |-> force]
                 /\ UNCHANGED <<klast_hash, gvars>>
            ELSE /\ klast_hash' = h
                 /\ kprev' = [hash |-> h, forced |-> force]
                 /\ gpc' = [gpc EXCEPT ![t] = "hashed"]
                 /\ gimg' = [gimg EXCEPT ![t] = h]
                 /\ UNCHANGED <<kpc, kloop, kforced, gnum>>
    /\ UNCHANGED <<krunning, kpaused, kframe_number, klatest, ksubs, bvars,
                   lvars>>

\* capture.py:258: `self._frame_number += 1` reads the attribute ...
RaceLoad(t) ==
    /\ gpc[t] = "hashed"
    /\ gpc' = [gpc EXCEPT ![t] = "loaded"]
    /\ gnum' = [gnum EXCEPT ![t] = kframe_number]
    /\ UNCHANGED <<krunning, kpaused, kpc, kloop, kforced, kframe_number,
                   klast_hash, klatest, ksubs, kprev, gimg, bvars, lvars>>

\* ... and writes it back, with no lock held in between.
RaceStore(t) ==
    /\ gpc[t] = "loaded"
    /\ gpc' = [gpc EXCEPT ![t] = "stored"]
    /\ kframe_number' = gnum[t] + 1
    /\ UNCHANGED <<krunning, kpaused, kpc, kloop, kforced, klast_hash, klatest,
                   ksubs, kprev, gnum, gimg, bvars, lvars>>

\* capture.py:260-267: the Frame is built from a second read of
\* self._frame_number and returned to the caller.
RaceReturn(t) ==
    /\ gpc[t] = "stored"
    /\ gpc' = [gpc EXCEPT ![t] = "idle"]
    /\ RaceDeliver(t, Frame(gimg[t], kframe_number, TRUE))
    /\ UNCHANGED <<krunning, kpaused, kframe_number, klast_hash, klatest,
                   ksubs, kprev, gnum, gimg, bvars, lvars>>

RaceNext ==
    \/ CapStart
    \/ CapSubscribe("s1")
    \/ CapGet("s1")
    \/ \E t \in Threads : RaceBegin(t)
    \/ \E t \in Threads : RaceLoad(t)
    \/ \E t \in Threads : RaceStore(t)
    \/ \E t \in Threads : RaceReturn(t)
    \/ CapPublish

RaceSpec == Init /\ [][RaceNext]_vars

CapNext ==
    \/ CapStart
    \/ CapPause
    \/ CapResume
    \/ \E s \in SubIds : CapSubscribe(s)
    \/ \E s \in SubIds : CapUnsubscribe(s)
    \/ \E s \in SubIds : CapGet(s)
    \/ CapGrab
    \/ CapPublish
    \/ CapForced

CapSpec == Init /\ [][CapNext]_vars

\* Two chat connections of the same account issuing batches to one producer
\* that sends command results only.
PlainChat == {[type |-> "chat", include_screenshot |-> TRUE]}

ResultMsgs == {m \in AgentMsgs : m.type = "action_result"}

NextChat2 ==
    \/ \E a \in {"a1"} : AgentConnect(a)
    \/ \E a \in {"a1"} : AgentRecv(a, ResultMsgs)
    \/ \E a \in {"a1"} : AgentDisconnect(a)
    \/ \E c \in ChatConns : ChatConnect(c)
    \/ \E c \in ChatConns : ChatRecv(c, PlainChat, {FALSE})
    \/ \E c \in ChatConns : ChatCall(c)
    \/ \E c \in ChatConns : ChatDispatch(c)
    \/ \E c \in ChatConns : ChatResume(c)
    \/ \E c \in ChatConns : ChatTimeout(c)
    \/ \E c \in ChatConns : ChatDisconnect(c)
    \/ \E c \in {"a1"} \cup ChatConns : PeerClose(c)

SpecChat2 == Init /\ [][NextChat2]_vars

\* One frame and one result batch.
AuthAgentMsgs == {FrameMsg(1), ActionResultMsg(1, 1)}

\* The three handlers of the broker side by side: one producer, one stream
\* consumer and one chat consumer, each with or without a valid credential.
\* One producer and two consumer connections of the same account.
SwapAgentMsgs == {FrameMsg(k) : k \in 1..MaxSeq}

SwapNext ==
    \/ \E a \in {"a1"} : AgentConnect(a)
    \/ \E a \in {"a1"} : AgentRecv(a, SwapAgentMsgs)
    \/ \E a \in {"a1"} : AgentFwdFailed(a)
    \/ \E a \in {"a1"} : AgentDisconnect(a)
    \/ \E b \in StreamConns : StreamConnect(b)
    \/ \E b \in StreamConns : StreamReplay(b)
    \/ \E b \in StreamConns : StreamRecv(b, StreamMsgs)
    \/ \E b \in StreamConns : StreamPing(b)
    \/ \E b \in StreamConns : StreamDisconnect(b)
    \/ \E c \in {"a1"} \cup StreamConns : PeerClose(c)

SwapSpec == Init /\ [][SwapNext]_vars

AuthNext ==
    \/ \E a \in {"a1"} : AgentConnect(a)
    \/ \E a \in {"a1"} : AgentRecv(a, AuthAgentMsgs)
    \/ \E a \in {"a1"} : AgentFwdFailed(a)
    \/ \E a \in {"a1"} : AgentDisconnect(a)
    \/ \E b \in {"b1"} : StreamConnect(b)
    \/ \E b \in {"b1"} : StreamReplay(b)
    \/ \E b \in {"b1"} : StreamRecv(b, StreamMsgs)
    \/ \E b \in {"b1"} : StreamPing(b)
    \/ \E b \in {"b1"} : StreamDisconnect(b)
    \/ \E c \in {"c1"} : ChatConnect(c)
    \/ \E c \in {"c1"} : ChatRecv(c, PlainChat, {FALSE})
    \/ \E c \in {"c1"} : ChatCall(c)
    \/ \E c \in {"c1"} : ChatDispatch(c)
    \/ \E c \in {"c1"} : ChatResume(c)
    \/ \E c \in {"c1"} : ChatTimeout(c)
    \/ \E c \in {"c1"} : ChatDisconnect(c)
    \/ \E c \in {"a1", "b1", "c1"} : PeerClose(c)

AuthSpec == Init /\ [][AuthNext]_vars

\* ------------------------------------------------------------- properties
Attached(u) ==
    u \in DOMAIN sessions
    /\ (sessions[u].agent_ws # None \/ sessions[u].browser_ws # None)

\* C1: the session table holds an entry for an account if and only if a
\* producer or a consumer connection of that account is attached.
C1_SessionIffAttached ==
    \A u \in Users : (u \in DOMAIN sessions) <=> Attached(u)

Outstanding ==
    {c \in ChatConns : pc[c] = "waiting" /\ futures[creq[c]].state = "pending"}

\* C2: at most one command batch is outstanding per session: no two chat
\* handlers of an account wait for an unresolved batch at the same time.
C2_OneOutstandingBatch ==
    \A u \in Users : Cardinality({c \in Outstanding : huser[c] = u}) <= 1

\* C3: the future of batch X is resolved only by an action_result whose
\* request_id is X, and the caller gets that message's results in order.
C3_ResolvedByOwnResult ==
    \A r \in 1..Len(futures) :
        futures[r].state = "done" =>
            futures[r].result = ResultList(r, Len(futures[r].result))

IsErrorSet(results, acts) ==
    /\ Len(results) = Len(acts)
    /\ \A i \in 1..Len(results) : "error" \in DOMAIN results[i]

TimedOut(c) ==
    /\ pc[c] = "waiting"
    /\ Awaited(c).state = "pending"
    /\ pc'[c] # "waiting"

\* C4: when no result arrives within the wait bound the caller gets an error
\* result for every command of the batch, and the pending state is cleared.
C4_TimeoutAllErrors ==
    [][\A c \in ChatConns :
         TimedOut(c) =>
            /\ sessions'[huser[c]].pending_action_future = 0
            /\ c \notin closed =>
                 /\ out'[c].last.type = "response"
                 /\ IsErrorSet(out'[c].last.action_results, cacts[c])]_vars

ProducerGone(c) ==
    IF pc[c] = "waiting" THEN sessions[huser[c]].agent_ws = None ELSE FALSE

Released(c) ==
    IF pc[c] = "waiting"
    THEN FALSE
    ELSE \A u \in DOMAIN sessions : sessions[u].pending_action_future = 0

\* C5: when the producer disconnects while a batch is pending, the waiting
\* caller is eventually released and the pending state is cleared.
C5_PendingEventuallyCleared ==
    \A c \in {"c1"} : ProducerGone(c) ~> Released(c)

\* C5 witness: a caller was released by the timeout after the producer left.
C5_Witness ==
    \E c \in {"c1"} :
        /\ pc[c] = "loop"
        /\ sessions[huser[c]].agent_ws = None
        /\ sessions[huser[c]].pending_action_future = 0
        /\ out[c].last = ResponseMsg(TimeoutResults(<<>>))
        /\ \E r \in 1..Len(futures) : futures[r].state = "cancelled"

IsAction(m) == m.type = "action"
IsResult(m) == m.type = "action_result"
Requests == SelectSeq(lin, IsAction)
Answers == SelectSeq(lout, IsResult)

\* The action messages whose handling has ended.
Handled == IF lpc = "exec" THEN Len(Requests) - 1 ELSE Len(Requests)

\* C6: while the transport is open, every action message whose handling
\* has ended was answered by exactly one action_result with the same
\* request_id and one entry per descriptor, in order; the entry of an
\* invalid descriptor is the "Invalid action" error.
C6_OneResultPerAction ==
    ~lclosed =>
        /\ Len(Answers) = Handled
        /\ \A j \in 1..Len(Answers) :
              /\ Answers[j].request_id = Requests[j].request_id
              /\ Len(Answers[j].results) = Len(Requests[j].actions)
              /\ \A i \in 1..Len(Answers[j].results) :
                    (Answers[j].results[i] = InvalidEntry)
                        <=> (from_dict(Requests[j].actions[i]).parsed # "action")

\* C7: once a second producer connection has registered for the account, a
\* message of the earlier connection changes nothing in the session.
C7_OnlyRegisteredProducerWrites ==
    [][\A a \in AgentConns, m \in AgentMsgs :
         (/\ pc[a] = "loop"
          /\ sessions[huser[a]].agent_ws # a
          /\ AgentHandle(a, m))
         => UNCHANGED <<sessions, futures, out>>]_vars

Detached(c) == pc[c] \in {"init", "rejected", "done"}

\* C8: once the producer and the consumer have both detached, the registry
\* holds no session.
C8_BothDetachedNoSession ==
    ((\A c \in Conns : Detached(c)) /\ (\E c \in Conns : pc[c] = "done"))
        => active_sessions = 0

\* C9: a consumer is registered and sent the current producer status in one
\* step; the first message a consumer connection gets is that status, and
\* the cached frame, if there is one, follows.
C9_StatusFirst ==
    [][\A b \in StreamConns :
         /\ (pc[b] = "init" /\ pc'[b] = "replay") =>
               /\ sessions'[huser'[b]].browser_ws = b
               /\ out[b] = Nothing
               /\ out'[b].last =
                    AgentStatusMsg(sessions'[huser'[b]].agent_ws # None,
                                   sessions'[huser'[b]].agent_status)
         /\ out'[b].first # NoMsg => out'[b].first.type = "agent_status"
         /\ (pc[b] = "replay" /\ pc'[b] = "loop" /\ b \notin closed
              /\ sessions[huser[b]].latest_frame # NoFrame) =>
               out'[b].last = sessions[huser[b]].latest_frame]_vars

\* C9 witness: a consumer got the status of an attached producer first and
\* then the cached frame.
C9_Witness ==
    \E b \in StreamConns :
        /\ pc[b] = "loop"
        /\ out[b].first = AgentStatusMsg(TRUE, "connected")
        /\ out[b].last.type = "frame"
        /\ \A a \in AgentConns : pc[a] # "loop" \/ a \in closed

\* C10: a frame received from the producer becomes the session's latest
\* frame and is forwarded unmodified to the attached consumer (when the
\* consumer's transport is gone the relay raises instead).
C10_FrameStoredAndForwarded ==
    [][\A a \in AgentConns, k \in 1..MaxSeq :
         LET u == huser[a]
             b == sessions[u].browser_ws
         IN (pc[a] = "loop" /\ AgentHandle(a, FrameMsg(k))) =>
              /\ sessions'[u].latest_frame = FrameMsg(k)
              /\ (b # None /\ b \notin closed) => out'[b].last = FrameMsg(k)
              /\ (b # None /\ b \in closed) => pc'[a] = "fwd_failed"]_vars

\* C10 witness: the second of two frames is the latest frame and is the
\* last message the attached consumer got.
C10_Witness ==
    \E u \in DOMAIN sessions :
        LET b == sessions[u].browser_ws
        IN /\ b # None
           /\ b \notin closed
           /\ sessions[u].latest_frame = FrameMsg(2)
           /\ out[b].last = FrameMsg(2)
           /\ out[b].first.type = "agent_status"

\* C11: a consumer message reaches the producer iff its type is control and
\* a producer is attached, and it arrives unmodified; a forward that fails
\* is swallowed, and handling a well-formed message ends no connection and
\* changes no session.
C11_ControlForwarded ==
    [][\A b \in StreamConns, m \in StreamMsgs :
         LET a == sessions[huser[b]].agent_ws
         IN (pc[b] = "loop" /\ StreamHandle(b, m)) =>
              /\ (m.type = "control" /\ a # None /\ a \notin closed) =>
                    /\ out'[a].last = m
                    /\ \A c \in Conns \ {a} : out'[c] = out[c]
              /\ ~(m.type = "control" /\ a # None /\ a \notin closed) =>
                    out' = out
              /\ m.type # "malformed" => (pc' = pc /\ sessions' = sessions)]_vars

\* C11 witness: the attached producer got the consumer's pause command and
\* both handlers are still in their loops.
C11_Witness ==
    \E b \in StreamConns, a \in AgentConns :
        /\ pc[b] = "loop"
        /\ pc[a] = "loop"
        /\ sessions[huser[b]].agent_ws = a
        /\ sessions[huser[b]].browser_ws = b
        /\ out[a].last = ControlMsg("pause")

\* C12: when a producer-facing handler ends, the session's producer handle
\* is cleared, its status is disconnected, its latest frame is cleared, and
\* a consumer that is attached with an open transport is sent the
\* producer-disconnected announcement.
C12_ProducerDetached ==
    [][\A a \in AgentConns :
         (pc[a] \in {"loop", "fwd_failed"} /\ pc'[a] = "done") =>
            LET u == huser[a]
                b == sessions[u].browser_ws
            IN /\ sessions'[u].agent_ws = None
               /\ sessions'[u].agent_status = "disconnected"
               /\ sessions'[u].latest_frame = NoFrame
               /\ (b # None /\ b \notin closed) =>
                     out'[b].last = AgentStatusMsg(FALSE, "disconnected")]_vars

\* C12 witness: the only producer handler has ended, the session is
\* cleared and the attached consumer holds the announcement.
C12_Witness ==
    \E a \in AgentConns, b \in StreamConns :
        /\ pc[a] = "done"
        /\ pc[b] = "loop"
        /\ b \notin closed
        /\ sessions[huser[a]].browser_ws = b
        /\ sessions[huser[a]].agent_ws = None
        /\ sessions[huser[a]].latest_frame = NoFrame
        /\ out[b].last = AgentStatusMsg(FALSE, "disconnected")
        /\ \A a2 \in AgentConns \ {a} : pc[a2] = "init"

\* C13: when a non-forced capture follows a non-forced capture and the
\* hashes of the two images are within the threshold, the second capture is
\* not a changed frame, so it is not published.
C13_SimilarNotPublished ==
    [][(/\ kpc = "tick"
        /\ kpc' = "grabbed"
        /\ kloop' # NoFrame
        /\ kprev.hash # NoHash
        /\ ~kprev.forced
        /\ diff(kprev.hash, kprev'.hash) <= Threshold)
       => ~kloop'.changed]_vars

\* C14: no queue ever holds more than QueueSize frames; a publish appends
\* the frame to every queue, and to a queue that holds QueueSize frames it
\* does so after evicting the oldest one; the publish step always returns
\* the loop to its next tick.
C14_DropOldest ==
    [][/\ \A s \in DOMAIN ksubs' : Len(ksubs'[s]) <= QueueSize
       /\ (kpc = "grabbed" /\ kpc' # "grabbed") => kpc' = "tick"
       /\ (kpc = "grabbed" /\ kpc' = "tick" /\ kloop # NoFrame /\ kloop.changed) =>
             \A s \in DOMAIN ksubs :
                ksubs'[s] = IF Len(ksubs[s]) = QueueSize
                            THEN Append(Tail(ksubs[s]), kloop)
                            ELSE Append(ksubs[s], kloop)]_vars

\* C14 witness: a queue that was full holds QueueSize frames, its oldest
\* frame evicted and the latest frame its newest.
C14_Witness ==
    \E s \in DOMAIN ksubs :
        /\ Len(ksubs[s]) = QueueSize
        /\ ksubs[s][1].frame_number = 2
        /\ ksubs[s][QueueSize].frame_number = QueueSize + 1
        /\ ksubs[s][QueueSize] = klatest

\* C15: a forced capture that yields an image returns a changed frame with
\* the next sequence number, and that frame is the newest frame of every
\* subscriber's queue.
C15_ForcedPublishes ==
    [][(CapForced /\ kforced' # NoFrame /\ kframe_number' # kframe_number) =>
          /\ kforced'.changed
          /\ kforced'.frame_number = kframe_number + 1
          /\ \A s \in DOMAIN ksubs :
                /\ ksubs'[s] # <<>>
                /\ ksubs'[s][Len(ksubs'[s])] = kforced']_vars


\* A failure that start() answers with a backoff delay, while no stop was
\* requested.
BackingOff ==
    /\ lrunning
    /\ \/ LinkDisconnected
       \/ LifeConnectFail("refused")
       \/ LifeConnectFail("rejected")

Leq(p, q) == p.num * q.den <= q.num * p.den

\* The least counter value whose delay is the maximal delay.
CapThreshold ==
    CHOOSE n \in 0..MaxAttempt :
        /\ _get_reconnect_delay(n).delay = Seconds(max_reconnect_delay)
        /\ \A m \in 0..(n - 1) :
              _get_reconnect_delay(m).delay # Seconds(max_reconnect_delay)

\* C16: every backoff produces a delay from the attempt counter n; the
\* delay is the base delay when n = 0 (the first failure after a successful
\* connect), it is the maximal delay for every n at or above the cap
\* threshold, and it is never less than the delay of n - 1.
C16_DelayLaw ==
    [][BackingOff =>
        /\ lpc' = "disconnected"
        /\ (lcount = 0 => ldelay' = Seconds(reconnect_delay))
        /\ (lcount >= CapThreshold => ldelay' = Seconds(max_reconnect_delay))
        /\ (lcount > 0 =>
              Leq(_get_reconnect_delay(lcount - 1).delay, ldelay'))]_vars

\* start() is in one of its sleeps.
Sleeping == lpc \in {"disconnected", "cooldown", "crashed"}

\* C17: while no stop was requested, every connect attempt after the first
\* one begins after a sleep of positive length, and the link has left the
\* connected status before it: a lost connection, however it was closed,
\* is never followed by an immediate re-attempt.
C17_ReconnectAfterDelay ==
    [][(lpc # "init" /\ lpc # "connecting" /\ lpc' = "connecting") =>
        /\ Sleeping
        /\ ldelay.num > 0
        /\ lstatus # "connected"
        /\ ~lconnected]_vars

\* A connect attempt is refused for its credential while no stop was
\* requested: by an HTTP 401 answer, or by the broker, which closes the
\* connection it has not accepted with code 4001.
AuthRejected ==
    /\ lrunning
    /\ \/ LifeConnectFail("http401")
       \/ LifeConnectFail("rejected")

\* C18: every authentication rejection of a connect attempt sets the status
\* auth_failed and makes start() sleep the fixed cooldown of 30 seconds
\* before the next attempt.
C18_AuthCooldown ==
    [][AuthRejected =>
        /\ lstatus' = "auth_failed"
        /\ lpc' = "cooldown"
        /\ ldelay' = Seconds(AuthCooldown)]_vars

\* stop() was requested: only stop() clears _running after start() set it.
StopRequested == lpc # "init" /\ ~lrunning

\* The transport of the current connection is open.
TransportOpen == lpc \in {"idle", "exec", "followup"} /\ ~lclosed

\* C19: once stop() was requested the frame and keepalive loops do not
\* run, no transport is open, and neither the status nor the connected
\* flag says connected again, whatever start() was doing at the request.
C19_StoppedStaysDown ==
    StopRequested =>
        /\ ~ltasks
        /\ ~TransportOpen
        /\ lstatus # "connected"
        /\ ~lconnected

\* enable() or disable() is called: by the control command that the message
\* loop takes, or by the tray menu.
GateCalled ==
    \/ \E enabled \in BOOLEAN : TrayToggle(enabled)
    \/ /\ GateRecv
       /\ \/ lin' = Append(lin, ControlCmd("enable_actions")) /\ lenabled'
          \/ lin' = Append(lin, ControlCmd("disable_actions")) /\ ~lenabled'

\* C20: the enabled flag of the executor starts disabled; while it is
\* disabled, executing an action of any type logs nothing, dispatches no
\* input event and yields the disabled outcome; and the flag changes only
\* in a call of enable() or disable().
C20_GateClosed ==
    /\ ~lenabled
    /\ [][/\ (LinkExec /\ ~lenabled
               /\ from_dict(lmsg.actions[lidx]).parsed = "action") =>
                /\ llog' = llog
                /\ levents' = levents
                /\ lout' = lout
                /\ lresults' = Append(lresults,
                                      [status |-> "ok", message |-> Disabled])
          /\ (lenabled' # lenabled) => GateCalled]_vars

\* The flag was enabled and disabled again, and a key command executed
\* afterwards got the disabled outcome and was not logged.
C20_Witness ==
    /\ ~lenabled
    /\ Len(lin) = 2
    /\ lin[1] = ControlCmd("enable_actions")
    /\ lin[2].type = "action"
    /\ lin[2].actions = <<[type |-> "key", keys |-> "[\"enter\"]"]>>
    /\ lresults = <<[status |-> "ok", message |-> Disabled]>>
    /\ llog = <<>>
    /\ levents = <<>>

\* The command that LinkExec executes next is a key command whose key
\* string, in lower case and without the blanks around it, is denylisted,
\* and the gate is open.
DenylistedNext ==
    /\ lpc = "exec"
    /\ lidx <= Len(lmsg.actions)
    /\ lenabled
    /\ LET action == from_dict(lmsg.actions[lidx])
       IN /\ action.parsed = "action"
          /\ action.type = "key"
          /\ action.keys \in DOMAIN KeyText
          /\ KeyText[action.keys] \in dangerous

\* A log entry that records that its command was blocked.
ShowsBlocked(entry) ==
    /\ "outcome" \in DOMAIN entry
    /\ entry.outcome = "blocked"

C22_LinkRejectsUnit ==
    [][(LinkRecv \/ LinkExec) =>
        /\ lpc' \in {"idle", "exec", "followup"}
        /\ lstatus' = "connected"
        /\ (LinkExec => lidx' = lidx + 1)]_vars

\* No session holds connection c as its producer or as its consumer.
Unregistered(c) ==
    \A u \in DOMAIN sessions :
        sessions[u].agent_ws # c /\ sessions[u].browser_ws # c

\* C23: a connection without a valid credential is closed with code 4001
\* straight from its initial state, in a step that changes no session, no
\* future and no outbox; from then on it belongs to no user, is registered
\* in no session, has been sent nothing, and its handler is over, so that
\* nothing is ever received from it.
C23_RejectedStaysOut ==
    /\ [](\A c \in Conns :
            pc[c] = "rejected" =>
                /\ closeCode[c] = UnauthorizedCode
                /\ huser[c] \notin Users
                /\ Unregistered(c)
                /\ out[c] = Nothing)
    /\ [][\A c \in Conns :
            /\ (pc[c] # "rejected" /\ pc'[c] = "rejected") =>
                  /\ pc[c] = "init"
                  /\ sessions' = sessions
                  /\ futures' = futures
                  /\ out' = out
            /\ pc[c] = "rejected" => pc'[c] = "rejected"]_vars

\* Both consumer connections of the account were rejected while its
\* producer is attached and has delivered a frame.
C23_Witness ==
    /\ pc["b1"] = "rejected"
    /\ pc["c1"] = "rejected"
    /\ 7 \in DOMAIN sessions
    /\ sessions[7].agent_ws = "a1"
    /\ sessions[7].latest_frame # NoFrame

\* A connect attempt or an established transport fails, for another reason
\* than the credential, while no stop was requested.
PlainFailure ==
    /\ lrunning
    /\ \/ LinkDisconnected
       \/ LifeConnectFail("refused")
       \/ LifeConnectFail("other")

\* C24: every failure of a connect attempt or of the transport that is not
\* an authentication rejection waits the backoff delay of the current
\* counter value and is followed by exactly one increment of the counter;
\* the counter changes in no other way than by that increment and by the
\* reset to 0 of a successful connect.
C24_CounterDiscipline ==
    [][/\ PlainFailure =>
            /\ lpc' = "disconnected"
            /\ ldelay' = _get_reconnect_delay(lcount).delay
       /\ (LifeRetry /\ lpc = "disconnected") => lcount' = lcount + 1
       /\ lcount' # lcount =>
            \/ LifeRetry /\ lpc = "disconnected" /\ lcount' = lcount + 1
            \/ LinkConnect /\ lcount' = 0]_vars

\* C25: while no stop was requested the reported status becomes connected
\* only from the status connecting, and start() is over only after a stop
\* request.
C25_StatusCycle ==
    [][/\ (lrunning /\ lstatus' = "connected" /\ lstatus # "connected") =>
              lstatus = "connecting"
       /\ (lpc' \in {"ended", "dead"} /\ lpc # lpc') => ~lrunning]_vars

\* C26: a frame whose forward to the consumer fails is stored all the same,
\* and the failure detaches the consumer and nothing else: the producer
\* handler is back in its receive loop, its connection is not closed, and
\* the producer of the session and the stored frame are as they were.
C26_ForwardFailureDetaches ==
    [][\A a \in AgentConns :
        /\ (pc[a] = "loop" /\ pc'[a] = "fwd_failed") =>
              /\ sessions'[huser[a]].latest_frame # NoFrame
              /\ sessions'[huser[a]].agent_ws = sessions[huser[a]].agent_ws
              /\ closed' = closed
        /\ pc[a] = "fwd_failed" =>
              \/ pc'[a] = "fwd_failed"
              \/ /\ pc'[a] = "loop"
                 /\ sessions'[huser[a]].browser_ws = None
                 /\ sessions'[huser[a]].agent_ws = sessions[huser[a]].agent_ws
                 /\ sessions'[huser[a]].latest_frame = sessions[huser[a]].latest_frame
                 /\ closed' = closed]_vars

\* The consumer was detached by a failed forward (its own handler has not
\* ended), and the producer is attached, in its receive loop, and has
\* stored a frame that was not forwarded.
C26_Witness ==
    /\ 7 \in DOMAIN sessions
    /\ "b1" \in closed
    /\ pc["b1"] \notin {"init", "rejected", "done"}
    /\ sessions[7].browser_ws = None
    /\ sessions[7].agent_ws = "a1"
    /\ pc["a1"] = "loop"
    /\ out["b1"].last = FrameMsg(1)
    /\ sessions[7].latest_frame = FrameMsg(2)

\* C27: a future that is resolved or timed out is never changed again, and
\* a pending future is never resolved by the results of an earlier batch.
C27_LateResultDiscarded ==
    [][\A r \in 1..Len(futures) :
        /\ futures[r].state \in {"done", "cancelled"} => futures'[r] = futures[r]
        /\ (futures[r].state = "pending" /\ futures'[r].state = "done") =>
              \A q \in 1..(r - 1), n \in 1..MaxCmds :
                  futures'[r].result # ResultList(q, n)]_vars

\* C28: the handling of any message of a producer or of a stream consumer
\* leaves the handler of that connection running and the producer and the
\* consumer of its session as they were.
C28_BrokerRejectsUnit ==
    [][/\ \A a \in AgentConns :
            AgentRecv(a, AgentMsgs) =>
                /\ pc'[a] # "done"
                /\ sessions'[huser[a]].agent_ws = sessions[huser[a]].agent_ws
       /\ \A b \in StreamConns :
            StreamRecv(b, StreamMsgs) =>
                /\ pc'[b] # "done"
                /\ sessions'[huser[b]].browser_ws = sessions[huser[b]].browser_ws]_vars

\* C29: executing a command that from_dict accepted adds exactly one result
\* entry and moves on to the next command without touching the connection;
\* when the dispatch raised, the entry has status error and the message of
\* the exception; and the reply of the batch carries one entry per command.
C29_DispatchErrorRecorded ==
    [][/\ (LinkExec /\ from_dict(lmsg.actions[lidx]).parsed = "action") =>
            LET action == from_dict(lmsg.actions[lidx])
                entry == lresults'[Len(lresults')]
            IN /\ Len(lresults') = Len(lresults) + 1
               /\ (\E r \in execute(action, lenabled) :
                       r.raised /\ entry.message = r.ret) =>
                     entry.status = "error"
               /\ lidx' = lidx + 1
               /\ lpc' = "exec"
               /\ lstatus' = lstatus
               /\ lclosed' = lclosed
               /\ ltasks' = ltasks
       /\ LinkReply =>
            /\ Len(lresults) = Len(lmsg.actions)
            /\ (lconnected /\ ~lclosed) =>
                  lout' = Append(lout, [type |-> "action_result",
                                        request_id |-> lmsg.request_id,
                                        results |-> lresults])]_vars

\* The dispatch of the first command of a batch raised, the second command
\* was executed, and the reply with both entries was sent on the open
\* connection.
C29_Witness ==
    /\ lpc = "followup"
    /\ lstatus = "connected"
    /\ ~lclosed
    /\ lresults = <<[status |-> "error", message |-> "input failed"],
                    [status |-> "ok", message |-> "done click"]>>
    /\ lout[Len(lout)] = [type |-> "action_result",
                          request_id |-> lmsg.request_id,
                          results |-> lresults]

\* C30: while the capture engine is paused its loop starts no grab and
\* puts no frame on any subscriber queue; pause() and resume() leave the
\* loop running where it is.
C30_PausedPublishesNothing ==
    [][/\ kpaused =>
            /\ ~CapGrab
            /\ CapPublish => ksubs' = ksubs
       /\ (CapPause \/ CapResume) => (krunning' = krunning /\ kpc' = kpc)]_vars


\* C31: a grab that fails puts nothing on any queue and leaves the latest
\* frame alone, and the turn of the loop that follows it leaves the engine
\* running and returns the loop to its next tick, where the next grab starts.
C31_FailedGrabContinues ==
    [][/\ (CapGrab /\ kloop' = NoFrame) =>
            (ksubs' = ksubs /\ klatest' = klatest /\ krunning' = krunning)
       /\ (CapPublish /\ kloop = NoFrame) =>
            /\ ksubs' = ksubs
            /\ klatest' = klatest
            /\ krunning' = krunning
            /\ kpc' = "tick"]_vars

\* A grab has failed while a subscriber is attached and frames were
\* published before it.
C31_Witness ==
    /\ kpc = "grabbed"
    /\ kloop = NoFrame
    /\ krunning
    /\ ~kpaused
    /\ klatest # NoFrame
    /\ DOMAIN ksubs # {}


\* The values the session's producer status is specified to take.
StatusValues ==
    {"connecting", "connected", "disconnected", "auth_failed", "error",
     "paused"}

\* C32: the producer status of every session is one of connecting,
\* connected, disconnected, auth_failed, error, paused.
C32_StatusInSet ==
    \A u \in DOMAIN sessions : sessions[u].agent_status \in StatusValues


\* C33: the changed frame the loop last produced and the frame the last
\* forced capture produced never carry the same sequence number.
C33_DistinctNumbers ==
    IF kloop # NoFrame /\ kforced # NoFrame
    THEN kloop.changed => kloop.frame_number # kforced.frame_number
    ELSE TRUE


C35_ContextIsLatestImage ==
    [][\A c \in {"c1"} :
          (/\ ChatCall(c)
           /\ pc[c] = "thinking"
           /\ cinc[c]
           /\ sessions[huser[c]].latest_frame # NoFrame)
          => cctx'[c] = sessions[huser[c]].latest_frame.image_b64]_vars


\* C36: when a producer handler ends while a newer producer connection is
\* the one attached to its session, the teardown leaves the handle, the
\* status and the latest frame of the session as they are and sends the
\* consumer nothing.
C36_TeardownSparesNewer ==
    [][\A a \in AgentConns :
          (/\ pc[a] \in {"loop", "fwd_failed"}
           /\ pc'[a] = "done"
           /\ huser[a] \in DOMAIN sessions
           /\ sessions[huser[a]].agent_ws \in AgentConns \ {a})
          => /\ huser[a] \in DOMAIN sessions'
             /\ sessions'[huser[a]].agent_ws = sessions[huser[a]].agent_ws
             /\ sessions'[huser[a]].agent_status = sessions[huser[a]].agent_status
             /\ sessions'[huser[a]].latest_frame = sessions[huser[a]].latest_frame
             /\ out' = out]_vars


\* C37: a session holds a latest frame only while a producer connection is
\* attached to it.
C37_FrameOnlyWhileAttached ==
    \A u \in DOMAIN sessions :
        sessions[u].latest_frame # NoFrame => sessions[u].agent_ws # None


\* C38: a consumer connection that is attached, open and whose handler goes
\* on stays attached when the relay handles a failed send or when the
\* handler of another consumer connection ends.
C38_OnlyFailedDetached ==
    [][\A b \in StreamConns :
          (/\ huser[b] \in DOMAIN sessions
           /\ sessions[huser[b]].browser_ws = b
           /\ b \notin closed
           /\ pc[b] \in {"replay", "loop"}
           /\ pc'[b] = pc[b]
           /\ IF \E a \in AgentConns : pc[a] = "fwd_failed" /\ pc'[a] = "loop"
              THEN TRUE
              ELSE \E c \in StreamConns \ {b} :
                      pc[c] \in {"replay", "loop"} /\ pc'[c] = "done")
          => sessions'[huser[b]].browser_ws = b]_vars


\* The queues of the capture engine that the link's frame tasks subscribed.
LinkQueues == {LinkQueue(n) : n \in DOMAIN ftask} \cap DOMAIN ksubs

\* C39: the capture engine holds at most one queue of the link; the queue
\* of a frame task is held exactly while that task is inside its forwarding
\* loop, so none is held when no such loop runs and none outlives a task
\* that was cancelled or has ended.
C39_OneQueueNoLeak ==
    /\ Cardinality(LinkQueues) <= 1
    /\ \A n \in DOMAIN ftask :
          LinkQueue(n) \in DOMAIN ksubs <=> ftask[n].pc = "waiting"
    /\ (\A n \in DOMAIN ftask : ftask[n].pc # "waiting") => DOMAIN ksubs = {}

\* The link has reconnected after a cancelled forwarding loop that held
\* frames: the first task is done, the second one holds the only queue.
C39_Witness ==
    /\ Len(ftask) = 2
    /\ ftask[1] = [pc |-> "done", cancel |-> TRUE]
    /\ ftask[2].pc = "waiting"
    /\ DOMAIN ksubs = {LinkQueue(2)}
    /\ klatest # NoFrame


\* A frame task of the link exists that was not cancelled and has not ended.
Forwarding ==
    \E n \in DOMAIN ftask : ftask[n].pc \in {"created", "waiting"} /\ ~ftask[n].cancel

\* C40: while the link's status is connected and no stop was requested, a
\* frame-forwarding loop of the link is running.
C40_ConnectedMeansForwarding ==
    (lstatus = "connected" /\ lrunning) => Forwarding

====
